---- MODULE Spec2Model ----
(***************************************************************************)
(* A model of rcu_128::RcuCell<T> and RcuGuard<'_, T> (src/src/lib.rs).   *)
(*                                                                         *)
(* The two AtomicU128 words are integers  pointer * Radix + counter, so    *)
(* that fetch_add, "ptr_counter - 1", ">> 64" and "& 0xffff_ffff_ffff_ffff"*)
(* are the arithmetic of the code, borrow into the pointer field included. *)
(* Every atomic access of the code is one step of the thread doing it.     *)
(* The heap is a set of addresses the allocator hands out in any order and *)
(* may hand out again once freed; every allocation has an identity (its    *)
(* index in allocs) that the program cannot see.                           *)
(*                                                                         *)
(* The atomic accesses are taken in one total order (the orderings of the  *)
(* code, AcqRel, Acquire, Release and Relaxed, are not told apart).        *)
(* update_token is a reader/writer lock that admits a shared holder when   *)
(* no exclusive holder is inside; parking_lot admits fewer (it also holds  *)
(* readers back behind a waiting writer), so every run of the code is a    *)
(* run of the model.                                                       *)
(***************************************************************************)
EXTENDS Integers, Sequences, FiniteSets

\* ---------------------------------------------------------------- bounds
NThreads == 3
\* write/update calls over the life of the cell
MaxWrites == 2
\* guards alive at the same time, over all threads
MaxGuards == 2
\* read calls of a run whose progress is checked
MaxReads == 3
\* width of the counter half of a word (64 in the code)
CounterBits == 3
\* the values of T are 0 .. NVals-1
NVals == 2

AllocIds == 1 .. (MaxWrites + 1)
Addrs == 1 .. (MaxWrites + 1)
Values == 0 .. (NVals - 1)
Fns == {"inc", "zero"}
\* RcuCell::new(0), as the example makes it
InitValue == 0

RECURSIVE Pow2(_)
Pow2(n) == IF n = 0 THEN 1 ELSE 2 * Pow2(n - 1)

\* ------------------------------------------------------- tagged word
Radix == Pow2(CounterBits)
WordMod == Radix * Radix
Ptr(w) == w \div Radix
Counter(w) == w % Radix
NewWord(p) == p * Radix
FetchAdd1(w) == (w + 1) % WordMod
Minus1(w) == (w + WordMod - 1) % WordMod

\* the closures the model passes to update
Apply(f, x) == IF f = "inc" THEN (x + 1) % NVals ELSE 0

VARIABLES
    ptr_counter_latest,     \* RcuCell.ptr_counter_latest
    ptr_counter_to_clear,   \* RcuCell.ptr_counter_to_clear
    update_token,           \* RcuCell.update_token: [shared, exclusive]
    cell_alive,             \* FALSE once the RcuCell has been dropped
    allocs,                 \* the Boxes ever made: [addr, val, frees, freed_by, displaced_by]
    installed,              \* ids in the order they became latest (history)
    ub,                     \* "none", or the undefined behaviour that happened
    pc,                     \* where each thread is
    guards,                 \* guards[t][id]: RcuGuards on allocation id held by t
    self_guard,             \* the guard thread t is dropping (its allocation id)
    ptr_counter,            \* local of RcuGuard::drop
    old_ptr_counter,        \* local of write/update/clear
    new_ptr_counter,        \* local of write/update
    old_value,              \* local of update: the address f reads
    f_arg,                  \* the closure given to update
    victim,                 \* the allocation thread t's swap displaced (history)
    reads_left              \* read calls the reader threads of a run still make

vars == <<ptr_counter_latest, ptr_counter_to_clear, update_token, cell_alive,
          allocs, installed, ub, pc, guards, self_guard, ptr_counter,
          old_ptr_counter, new_ptr_counter, old_value, f_arg, victim,
          reads_left>>

shared_vars == <<ptr_counter_latest, ptr_counter_to_clear, update_token,
                 cell_alive, allocs, installed, ub>>

\* the threads that share the cell
Threads == DOMAIN pc

\* ------------------------------------------------------------- heap
NumAllocs == Len(allocs)
IsLive(id) == allocs[id].frees = 0
\* the allocation an address names now (0: none, the address is free)
LiveAt(a) ==
    IF \E id \in 1 .. NumAllocs : allocs[id].addr = a /\ IsLive(id)
    THEN CHOOSE id \in 1 .. NumAllocs : allocs[id].addr = a /\ IsLive(id)
    ELSE 0
FreeAddrs == {a \in Addrs : LiveAt(a) = 0}
AddrOf(id) == allocs[id].addr
\* Box::new(value) returning address a
BoxNew(a, v) ==
    Append(allocs, [addr |-> a, val |-> v, frees |-> 0, freed_by |-> 0, displaced_by |-> 0])

\* mutant: the Box is forgotten instead of dropped
BoxFreeLeaks(a, t) == allocs

\* Box::from_raw(a) dropped by thread t
BoxFree(a, t) ==
    LET id == LiveAt(a)
    IN  [allocs EXCEPT ![id] = [@ EXCEPT !.frees = @ + 1, !.freed_by = t]]

RECURSIVE SumOver(_, _)
SumOver(g, S) ==
    IF S = {} THEN 0
    ELSE LET x == CHOOSE x \in S : TRUE IN g[x] + SumOver(g, S \ {x})
RECURSIVE TotalOver(_)
TotalOver(T) ==
    IF T = {} THEN 0
    ELSE LET t == CHOOSE t \in T : TRUE
         IN SumOver(guards[t], AllocIds) + TotalOver(T \ {t})
\* guards alive, a guard in the middle of its drop included
NumGuards == TotalOver(Threads) + Cardinality({t \in Threads : self_guard[t] # 0})
\* guards on allocation id that have not decremented yet
GuardsOn(id) ==
    SumOver([t \in Threads |-> guards[t][id]], Threads)
    + Cardinality({t \in Threads : self_guard[t] = id})

NoGuards == [id \in AllocIds |-> 0]

\* ------------------------------------------------------------- Init
\* RcuCell::new(value), shared by the threads T
InitFor(T) ==
    \E v \in {InitValue} :
        /\ ptr_counter_latest = NewWord(1)
        /\ ptr_counter_to_clear = 0
        /\ update_token = [shared |-> 0, exclusive |-> 0]
        /\ cell_alive = TRUE
        /\ allocs = <<[addr |-> 1, val |-> v, frees |-> 0, freed_by |-> 0,
                      displaced_by |-> 0]>>
        /\ installed = <<1>>
        /\ ub = "none"
        /\ pc = [t \in T |-> "idle"]
        /\ guards = [t \in T |-> NoGuards]
        /\ self_guard = [t \in T |-> 0]
        /\ ptr_counter = [t \in T |-> 0]
        /\ old_ptr_counter = [t \in T |-> 0]
        /\ new_ptr_counter = [t \in T |-> 0]
        /\ old_value = [t \in T |-> 0]
        /\ f_arg = [t \in T |-> "none"]
        /\ victim = [t \in T |-> 0]
        /\ reads_left = MaxReads

Init == InitFor(1 .. NThreads)

\* the allocation a pointer was made from: the latest Box made at that address
AllocAt(a) ==
    IF \E id \in 1 .. NumAllocs : allocs[id].addr = a
    THEN CHOOSE id \in 1 .. NumAllocs :
             /\ allocs[id].addr = a
             /\ \A j \in 1 .. NumAllocs : allocs[j].addr = a => j <= id
    ELSE 0

\* a thread back in its caller, its locals gone
Return(t) ==
    /\ pc' = [pc EXCEPT ![t] = "idle"]
    /\ self_guard' = [self_guard EXCEPT ![t] = 0]
    /\ ptr_counter' = [ptr_counter EXCEPT ![t] = 0]
    /\ old_ptr_counter' = [old_ptr_counter EXCEPT ![t] = 0]
    /\ new_ptr_counter' = [new_ptr_counter EXCEPT ![t] = 0]
    /\ old_value' = [old_value EXCEPT ![t] = 0]
    /\ f_arg' = [f_arg EXCEPT ![t] = "none"]
    /\ victim' = [victim EXCEPT ![t] = 0]

Goto(t, label) == pc' = [pc EXCEPT ![t] = label]

\* a thread that may call into the cell: it borrows a cell that still exists
Enter(t) ==
    /\ pc[t] = "idle"
    /\ cell_alive

\* write/update calls made so far (an update allocates only after f ran)
CallsMade ==
    (NumAllocs - 1) + Cardinality({t \in Threads : pc[t] \in {"u_token", "u_load", "u_f"}})

\* ------------------------------------------------------ RcuCell::read

\* mutant: read waits for the exclusive side of update_token to be free
ReadTakesToken(t) ==
    /\ Enter(t)
    /\ update_token.exclusive = 0
    /\ NumGuards < MaxGuards
    /\ LET id == AllocAt(Ptr(ptr_counter_latest))
       IN  /\ ptr_counter_latest' = FetchAdd1(ptr_counter_latest)
           /\ IF id = 0
              THEN /\ ub' = "wild_pointer"
                   /\ UNCHANGED guards
              ELSE /\ guards' = [guards EXCEPT ![t][id] = @ + 1]
                   /\ UNCHANGED ub
    /\ UNCHANGED <<ptr_counter_to_clear, update_token, cell_alive, allocs, installed,
                   pc, self_guard, ptr_counter, old_ptr_counter, new_ptr_counter,
                   old_value, f_arg, victim>>

Read(t) ==
    /\ Enter(t)
    /\ NumGuards < MaxGuards
    /\ LET id == AllocAt(Ptr(ptr_counter_latest))
       IN  /\ ptr_counter_latest' = FetchAdd1(ptr_counter_latest)
           /\ IF id = 0
              THEN /\ ub' = "wild_pointer"
                   /\ UNCHANGED guards
              ELSE /\ guards' = [guards EXCEPT ![t][id] = @ + 1]
                   /\ UNCHANGED ub
    /\ UNCHANGED <<ptr_counter_to_clear, update_token, cell_alive, allocs, installed,
                   pc, self_guard, ptr_counter, old_ptr_counter, new_ptr_counter,
                   old_value, f_arg, victim>>

\* ---------------------------------------------------- RcuGuard::deref
Deref(t, id) ==
    /\ guards[t][id] > 0
    /\ pc[t] = "idle"
    /\ IF IsLive(id) THEN UNCHANGED ub ELSE ub' = "use_after_free"
    /\ UNCHANGED <<ptr_counter_latest, ptr_counter_to_clear, update_token, cell_alive,
                   allocs, installed, pc, guards, self_guard, ptr_counter,
                   old_ptr_counter, new_ptr_counter, old_value, f_arg, victim>>

\* ----------------------------------------------------- RcuGuard::drop
SelfPtr(t) == AddrOf(self_guard[t])

\* mutant: the first loop does not compare the pointer
LoadLatestAny(t, p) ==
    /\ ptr_counter' = [ptr_counter EXCEPT ![t] = ptr_counter_latest]
    /\ Goto(t, "d_cas_latest")

\* one pass of the first loop up to its compare_exchange_weak
LoadLatest(t, p) ==
    IF Ptr(ptr_counter_latest) = p
    THEN /\ ptr_counter' = [ptr_counter EXCEPT ![t] = ptr_counter_latest]
         /\ Goto(t, "d_cas_latest")
    ELSE /\ Goto(t, "d_load_to_clear")
         /\ UNCHANGED ptr_counter

\* drop(guard): the guard leaves its holder and the first loop is entered
GuardDrop(t, id) ==
    /\ pc[t] = "idle"
    /\ guards[t][id] > 0
    /\ guards' = [guards EXCEPT ![t][id] = @ - 1]
    /\ self_guard' = [self_guard EXCEPT ![t] = id]
    /\ LoadLatest(t, AddrOf(id))
    /\ UNCHANGED <<shared_vars, old_ptr_counter, new_ptr_counter, old_value, f_arg,
                   victim>>

DropLoadLatest(t) ==
    /\ pc[t] = "d_load_latest"
    /\ LoadLatest(t, SelfPtr(t))
    /\ UNCHANGED <<shared_vars, guards, self_guard, old_ptr_counter, new_ptr_counter,
                   old_value, f_arg, victim>>

DropCasLatestOk(t) ==
    /\ pc[t] = "d_cas_latest"
    /\ ptr_counter_latest = ptr_counter[t]
    /\ ptr_counter_latest' = Minus1(ptr_counter[t])
    /\ Return(t)
    /\ UNCHANGED <<ptr_counter_to_clear, update_token, cell_alive, allocs, installed,
                   ub, guards>>

\* the value changed, or compare_exchange_weak failed for no reason
DropCasLatestFail(t) ==
    /\ pc[t] = "d_cas_latest"
    /\ Goto(t, "d_load_latest")
    /\ UNCHANGED <<shared_vars, guards, self_guard, ptr_counter, old_ptr_counter,
                   new_ptr_counter, old_value, f_arg, victim>>

\* mutant: the second loop does not compare the pointer
DropLoadToClearAny(t) ==
    /\ pc[t] = "d_load_to_clear"
    /\ ptr_counter' = [ptr_counter EXCEPT ![t] = ptr_counter_to_clear]
    /\ Goto(t, "d_cas_to_clear")
    /\ UNCHANGED <<shared_vars, guards, self_guard, old_ptr_counter, new_ptr_counter,
                   old_value, f_arg, victim>>

DropLoadToClear(t) ==
    /\ pc[t] = "d_load_to_clear"
    /\ IF Ptr(ptr_counter_to_clear) = SelfPtr(t)
       THEN /\ ptr_counter' = [ptr_counter EXCEPT ![t] = ptr_counter_to_clear]
            /\ Goto(t, "d_cas_to_clear")
       ELSE UNCHANGED <<pc, ptr_counter>>
    /\ UNCHANGED <<shared_vars, guards, self_guard, old_ptr_counter, new_ptr_counter,
                   old_value, f_arg, victim>>

\* mutant: the second loop returns without taking its unit off the counter
DropCasToClearOkKeeps(t) ==
    /\ pc[t] = "d_cas_to_clear"
    /\ ptr_counter_to_clear = ptr_counter[t]
    /\ Return(t)
    /\ UNCHANGED <<shared_vars, guards>>

DropCasToClearOk(t) ==
    /\ pc[t] = "d_cas_to_clear"
    /\ ptr_counter_to_clear = ptr_counter[t]
    /\ ptr_counter_to_clear' = Minus1(ptr_counter[t])
    /\ Return(t)
    /\ UNCHANGED <<ptr_counter_latest, update_token, cell_alive, allocs, installed,
                   ub, guards>>

DropCasToClearFail(t) ==
    /\ pc[t] = "d_cas_to_clear"
    /\ Goto(t, "d_load_to_clear")
    /\ UNCHANGED <<shared_vars, guards, self_guard, ptr_counter, old_ptr_counter,
                   new_ptr_counter, old_value, f_arg, victim>>

\* ----------------------------------------------------- RcuCell::clear

\* mutant: clear frees at once, whatever the counter says
ClearEntryNoDrain(w) == "c_free"

\* the test clear makes on entry: no reader, or hand the word to to_clear
ClearEntry(w) == IF Counter(w) = 0 THEN "c_free" ELSE "c_cas"

\* mutant: the hand-off stores the pointer without its counter
ClearCasOkDropsCount(t) ==
    /\ pc[t] = "c_cas"
    /\ ptr_counter_to_clear = 0
    /\ ptr_counter_to_clear' = NewWord(Ptr(old_ptr_counter[t]))
    /\ Goto(t, "c_wait")
    /\ UNCHANGED <<ptr_counter_latest, update_token, cell_alive, allocs, installed, ub,
                   guards, self_guard, ptr_counter, old_ptr_counter, new_ptr_counter,
                   old_value, f_arg, victim>>

\* mutant: the hand-off is a store, whatever to_clear holds
ClearCasOkStores(t) ==
    /\ pc[t] = "c_cas"
    /\ ptr_counter_to_clear' = old_ptr_counter[t]
    /\ Goto(t, "c_wait")
    /\ UNCHANGED <<ptr_counter_latest, update_token, cell_alive, allocs, installed, ub,
                   guards, self_guard, ptr_counter, old_ptr_counter, new_ptr_counter,
                   old_value, f_arg, victim>>

\* mutant: the hand-off succeeds when the counter of to_clear is 0
ClearCasOkOnZeroCount(t) ==
    /\ pc[t] = "c_cas"
    /\ Counter(ptr_counter_to_clear) = 0
    /\ ptr_counter_to_clear' = old_ptr_counter[t]
    /\ Goto(t, "c_wait")
    /\ UNCHANGED <<ptr_counter_latest, update_token, cell_alive, allocs, installed, ub,
                   guards, self_guard, ptr_counter, old_ptr_counter, new_ptr_counter,
                   old_value, f_arg, victim>>

ClearCasOk(t) ==
    /\ pc[t] = "c_cas"
    /\ ptr_counter_to_clear = 0
    /\ ptr_counter_to_clear' = old_ptr_counter[t]
    /\ Goto(t, "c_wait")
    /\ UNCHANGED <<ptr_counter_latest, update_token, cell_alive, allocs, installed, ub,
                   guards, self_guard, ptr_counter, old_ptr_counter, new_ptr_counter,
                   old_value, f_arg, victim>>

ClearCasFail(t) ==
    /\ pc[t] = "c_cas"
    /\ Goto(t, "c_inner")
    /\ UNCHANGED <<shared_vars, guards, self_guard, ptr_counter, old_ptr_counter,
                   new_ptr_counter, old_value, f_arg, victim>>

ClearInner(t) ==
    /\ pc[t] = "c_inner"
    /\ IF ptr_counter_to_clear # 0 THEN UNCHANGED pc ELSE Goto(t, "c_cas")
    /\ UNCHANGED <<shared_vars, guards, self_guard, ptr_counter, old_ptr_counter,
                   new_ptr_counter, old_value, f_arg, victim>>


\* mutant: the drain loop does not look at the counter
ClearWaitSkips(t) ==
    /\ pc[t] = "c_wait"
    /\ Goto(t, "c_store")
    /\ UNCHANGED <<shared_vars, guards, self_guard, ptr_counter, old_ptr_counter,
                   new_ptr_counter, old_value, f_arg, victim>>

\* mutant: the drain loop watches the counter of latest
ClearWaitLatest(t) ==
    /\ pc[t] = "c_wait"
    /\ IF Counter(ptr_counter_latest) # 0 THEN UNCHANGED pc ELSE Goto(t, "c_store")
    /\ UNCHANGED <<shared_vars, guards, self_guard, ptr_counter, old_ptr_counter,
                   new_ptr_counter, old_value, f_arg, victim>>

ClearWait(t) ==
    /\ pc[t] = "c_wait"
    /\ IF Counter(ptr_counter_to_clear) # 0 THEN UNCHANGED pc ELSE Goto(t, "c_store")
    /\ UNCHANGED <<shared_vars, guards, self_guard, ptr_counter, old_ptr_counter,
                   new_ptr_counter, old_value, f_arg, victim>>

\* mutant: the slot is not given back after the drain
ClearStoreKeeps(t) ==
    /\ pc[t] = "c_store"
    /\ Goto(t, "c_free")
    /\ UNCHANGED <<shared_vars, guards, self_guard, ptr_counter, old_ptr_counter,
                   new_ptr_counter, old_value, f_arg, victim>>

ClearStore(t) ==
    /\ pc[t] = "c_store"
    /\ ptr_counter_to_clear' = 0
    /\ Goto(t, "c_free")
    /\ UNCHANGED <<ptr_counter_latest, update_token, cell_alive, allocs, installed, ub,
                   guards, self_guard, ptr_counter, old_ptr_counter, new_ptr_counter,
                   old_value, f_arg, victim>>

\* Box::from_raw(old_ptr_counter >> 64), on the fast path and after the drain
ClearFree(t) ==
    /\ pc[t] = "c_free"
    /\ IF LiveAt(Ptr(old_ptr_counter[t])) = 0
       THEN /\ ub' = "double_free"
            /\ UNCHANGED allocs
       ELSE /\ allocs' = BoxFree(Ptr(old_ptr_counter[t]), t)
            /\ UNCHANGED ub
    /\ Return(t)
    /\ UNCHANGED <<ptr_counter_latest, ptr_counter_to_clear, update_token, cell_alive,
                   installed, guards>>

\* ----------------------------------------------------- RcuCell::write
WriteCall(t, v) ==
    /\ Enter(t)
    /\ CallsMade < MaxWrites
    /\ \E a \in FreeAddrs :
        /\ allocs' = BoxNew(a, v)
        /\ new_ptr_counter' = [new_ptr_counter EXCEPT ![t] = NewWord(a)]
    /\ Goto(t, "w_token")
    /\ UNCHANGED <<ptr_counter_latest, ptr_counter_to_clear, update_token, cell_alive,
                   installed, ub, guards, self_guard, ptr_counter, old_ptr_counter,
                   old_value, f_arg, victim>>


\* mutant: write swaps without waiting for a running update
WriteTokenNoWait(t) ==
    /\ pc[t] = "w_token"
    /\ update_token' = [update_token EXCEPT !.shared = @ + 1]
    /\ Goto(t, "w_swap")
    /\ UNCHANGED <<ptr_counter_latest, ptr_counter_to_clear, cell_alive, allocs,
                   installed, ub, guards, self_guard, ptr_counter, old_ptr_counter,
                   new_ptr_counter, old_value, f_arg, victim>>

\* update_token.read()
WriteToken(t) ==
    /\ pc[t] = "w_token"
    /\ update_token.exclusive = 0
    /\ update_token' = [update_token EXCEPT !.shared = @ + 1]
    /\ Goto(t, "w_swap")
    /\ UNCHANGED <<ptr_counter_latest, ptr_counter_to_clear, cell_alive, allocs,
                   installed, ub, guards, self_guard, ptr_counter, old_ptr_counter,
                   new_ptr_counter, old_value, f_arg, victim>>


\* mutant: a load where the swap should be, so the new value is never published
SwapLatestLoads(t, label) ==
    /\ old_ptr_counter' = [old_ptr_counter EXCEPT ![t] = ptr_counter_latest]
    /\ victim' = [victim EXCEPT ![t] = AllocAt(Ptr(ptr_counter_latest))]
    /\ allocs' = IF AllocAt(Ptr(ptr_counter_latest)) = 0 THEN allocs
                 ELSE [allocs EXCEPT ![AllocAt(Ptr(ptr_counter_latest))].displaced_by = t]
    /\ Goto(t, label)
    /\ UNCHANGED <<ptr_counter_latest, ptr_counter_to_clear, update_token, cell_alive,
                   installed, ub, guards, self_guard, ptr_counter, new_ptr_counter,
                   old_value, f_arg>>

\* ptr_counter_latest.swap(new_ptr_counter)
SwapLatest(t, label) ==
    /\ old_ptr_counter' = [old_ptr_counter EXCEPT ![t] = ptr_counter_latest]
    /\ ptr_counter_latest' = new_ptr_counter[t]
    /\ installed' = Append(installed, AllocAt(Ptr(new_ptr_counter[t])))
    /\ victim' = [victim EXCEPT ![t] = AllocAt(Ptr(ptr_counter_latest))]
    /\ allocs' = IF AllocAt(Ptr(ptr_counter_latest)) = 0 THEN allocs
                 ELSE [allocs EXCEPT ![AllocAt(Ptr(ptr_counter_latest))].displaced_by = t]
    /\ Goto(t, label)
    /\ UNCHANGED <<ptr_counter_to_clear, update_token, cell_alive, ub, guards,
                   self_guard, ptr_counter, new_ptr_counter, old_value, f_arg>>

WriteSwap(t) ==
    /\ pc[t] = "w_swap"
    /\ SwapLatest(t, "w_drop_token")

\* mutant: clear is entered with the shared side of update_token still held
WriteDropTokenKeeps(t) ==
    /\ pc[t] = "w_drop_token"
    /\ Goto(t, ClearEntry(old_ptr_counter[t]))
    /\ UNCHANGED <<shared_vars, guards, self_guard, ptr_counter, old_ptr_counter,
                   new_ptr_counter, old_value, f_arg, victim>>

\* drop(token_shared); self.clear(old_ptr_counter)
WriteDropToken(t) ==
    /\ pc[t] = "w_drop_token"
    /\ update_token' = [update_token EXCEPT !.shared = @ - 1]
    /\ Goto(t, ClearEntry(old_ptr_counter[t]))
    /\ UNCHANGED <<ptr_counter_latest, ptr_counter_to_clear, cell_alive, allocs,
                   installed, ub, guards, self_guard, ptr_counter, old_ptr_counter,
                   new_ptr_counter, old_value, f_arg, victim>>

\* ---------------------------------------------------- RcuCell::update
UpdateCall(t, f) ==
    /\ Enter(t)
    /\ CallsMade < MaxWrites
    /\ f_arg' = [f_arg EXCEPT ![t] = f]
    /\ Goto(t, "u_token")
    /\ UNCHANGED <<shared_vars, guards, self_guard, ptr_counter, old_ptr_counter,
                   new_ptr_counter, old_value, victim>>

\* mutant: update takes the shared side of update_token
UpdateTokenShared(t) ==
    /\ pc[t] = "u_token"
    /\ update_token.exclusive = 0
    /\ update_token' = [update_token EXCEPT !.shared = @ + 1]
    /\ Goto(t, "u_load")
    /\ UNCHANGED <<ptr_counter_latest, ptr_counter_to_clear, cell_alive, allocs,
                   installed, ub, guards, self_guard, ptr_counter, old_ptr_counter,
                   new_ptr_counter, old_value, f_arg, victim>>

\* update_token.write()
UpdateToken(t) ==
    /\ pc[t] = "u_token"
    /\ update_token.exclusive = 0
    /\ update_token.shared = 0
    /\ update_token' = [update_token EXCEPT !.exclusive = t]
    /\ Goto(t, "u_load")
    /\ UNCHANGED <<ptr_counter_latest, ptr_counter_to_clear, cell_alive, allocs,
                   installed, ub, guards, self_guard, ptr_counter, old_ptr_counter,
                   new_ptr_counter, old_value, f_arg, victim>>

UpdateLoad(t) ==
    /\ pc[t] = "u_load"
    /\ old_value' = [old_value EXCEPT ![t] = Ptr(ptr_counter_latest)]
    /\ Goto(t, "u_f")
    /\ UNCHANGED <<shared_vars, guards, self_guard, ptr_counter, old_ptr_counter,
                   new_ptr_counter, f_arg, victim>>

\* mutant: update publishes the Box it read again instead of a new one
UpdateFReuses(t) ==
    /\ pc[t] = "u_f"
    /\ new_ptr_counter' = [new_ptr_counter EXCEPT ![t] = NewWord(old_value[t])]
    /\ Goto(t, "u_swap")
    /\ UNCHANGED <<shared_vars, guards, self_guard, ptr_counter, old_ptr_counter,
                   old_value, f_arg, victim>>

\* f(old_value), then Box::new(new_value)
UpdateF(t) ==
    /\ pc[t] = "u_f"
    /\ IF LiveAt(old_value[t]) = 0
       THEN /\ ub' = "use_after_free"
            /\ UNCHANGED <<allocs, new_ptr_counter>>
       ELSE /\ \E a \in FreeAddrs :
                /\ allocs' = BoxNew(a, Apply(f_arg[t], allocs[LiveAt(old_value[t])].val))
                /\ new_ptr_counter' = [new_ptr_counter EXCEPT ![t] = NewWord(a)]
            /\ UNCHANGED ub
    /\ Goto(t, "u_swap")
    /\ UNCHANGED <<ptr_counter_latest, ptr_counter_to_clear, update_token, cell_alive,
                   installed, guards, self_guard, ptr_counter, old_ptr_counter,
                   old_value, f_arg, victim>>

UpdateSwap(t) ==
    /\ pc[t] = "u_swap"
    /\ SwapLatest(t, "u_drop_token")

\* drop(token_exclusive); self.clear(old_ptr_counter)
UpdateDropToken(t) ==
    /\ pc[t] = "u_drop_token"
    /\ update_token' = [update_token EXCEPT !.exclusive = 0]
    /\ Goto(t, ClearEntry(old_ptr_counter[t]))
    /\ UNCHANGED <<ptr_counter_latest, ptr_counter_to_clear, cell_alive, allocs,
                   installed, ub, guards, self_guard, ptr_counter, old_ptr_counter,
                   new_ptr_counter, old_value, f_arg, victim>>

\* ------------------------------------------------- the cell is dropped
\* RcuCell has no Drop impl: its fields go, the Box behind latest stays
CellDrop ==
    /\ cell_alive
    /\ \A t \in Threads : pc[t] = "idle"
    /\ NumGuards = 0
    /\ cell_alive' = FALSE
    /\ UNCHANGED <<ptr_counter_latest, ptr_counter_to_clear, update_token, allocs,
                   installed, ub, pc, guards, self_guard, ptr_counter, old_ptr_counter,
                   new_ptr_counter, old_value, f_arg, victim>>

\* ------------------------------------------------------------- Next
DropStep(t) ==
    \/ DropLoadLatest(t)
    \/ DropCasLatestOk(t)
    \/ DropCasLatestFail(t)
    \/ DropLoadToClear(t)
    \/ DropCasToClearOk(t)
    \/ DropCasToClearFail(t)

ClearStep(t) ==
    \/ ClearCasOk(t)
    \/ ClearCasFail(t)
    \/ ClearInner(t)
    \/ ClearWait(t)
    \/ ClearStore(t)
    \/ ClearFree(t)

WriteStep(t) ==
    \/ WriteToken(t)
    \/ WriteSwap(t)
    \/ WriteDropToken(t)

UpdateStep(t) ==
    \/ UpdateToken(t)
    \/ UpdateLoad(t)
    \/ UpdateF(t)
    \/ UpdateSwap(t)
    \/ UpdateDropToken(t)

Next ==
    /\ ub = "none"
    /\ UNCHANGED reads_left
    /\ \/ \E t \in Threads : Read(t)
       \/ \E t \in Threads, id \in AllocIds : Deref(t, id)
       \/ \E t \in Threads, id \in AllocIds : GuardDrop(t, id)
       \/ \E t \in Threads : DropStep(t)
       \/ \E t \in Threads, v \in Values : WriteCall(t, v)
       \/ \E t \in Threads : WriteStep(t)
       \/ \E t \in Threads, f \in Fns : UpdateCall(t, f)
       \/ \E t \in Threads : UpdateStep(t)
       \/ \E t \in Threads : ClearStep(t)
       \/ CellDrop

Spec == Init /\ [][Next]_vars

\* ------------------------------------------------------- scheduling
\* A compare_exchange_weak that fails although the word holds the expected
\* value sends its loop round to the same compare_exchange_weak with the same
\* locals; it does not do so for ever. Where progress is checked the loops
\* therefore go round only when the word has changed.
DropCasLatestMiss(t) ==
    /\ ptr_counter_latest # ptr_counter[t]
    /\ DropCasLatestFail(t)

DropCasToClearMiss(t) ==
    /\ ptr_counter_to_clear # ptr_counter[t]
    /\ DropCasToClearFail(t)

ClearCasMiss(t) ==
    /\ ptr_counter_to_clear # 0
    /\ ClearCasFail(t)

DropRun(t) ==
    \/ DropLoadLatest(t)
    \/ DropCasLatestOk(t)
    \/ DropCasLatestMiss(t)
    \/ DropLoadToClear(t)
    \/ DropCasToClearOk(t)
    \/ DropCasToClearMiss(t)

ClearRun(t) ==
    \/ ClearCasOk(t)
    \/ ClearCasMiss(t)
    \/ ClearInner(t)
    \/ ClearWait(t)
    \/ ClearStore(t)
    \/ ClearFree(t)

\* The threads run in parallel: a thread inside a call keeps taking steps, and
\* a thread that holds a guard drops it.
Running(t) ==
    \/ WriteStep(t)
    \/ UpdateStep(t)
    \/ ClearRun(t)
    \/ DropRun(t)
    \/ \E id \in AllocIds : GuardDrop(t, id)

Fairness(T) == \A t \in T : WF_vars(Running(t) /\ UNCHANGED reads_left)

\* a read of a run that makes MaxReads reads in all
CountedRead(t) ==
    /\ reads_left > 0
    /\ reads_left' = reads_left - 1
    /\ Read(t)

\* ------------------------------------------- write contention (writers, readers)
\* Writer threads that only write, each its own number, and reader threads
\* that read and then drop, holding one guard at a time.
Writers == {1, 2}
Readers == {3, 4}

ReadOne(t) ==
    /\ guards[t] = NoGuards
    /\ CountedRead(t)

InitContention == InitFor(Writers \cup Readers)

NextContention ==
    /\ ub = "none"
    /\ \/ \E t \in Readers : ReadOne(t)
       \/ /\ UNCHANGED reads_left
          /\ \/ \E t \in Writers : WriteCall(t, t % NVals)
             \/ \E t \in Writers : WriteStep(t)
             \/ \E t \in Writers : ClearRun(t)
             \/ \E t \in Readers, id \in AllocIds : GuardDrop(t, id)
             \/ \E t \in Readers : DropRun(t)

SpecContention ==
    InitContention /\ [][NextContention]_vars /\ Fairness(Writers \cup Readers)

\* ------------------------------------- several guards per thread, any drop order
\* Two writer threads and a thread that holds several guards at a time and
\* drops them in any order.
Holders == {3}

InitAnyOrder == InitFor(Writers \cup Holders)

NextAnyOrder ==
    /\ ub = "none"
    /\ \/ \E t \in Holders : CountedRead(t)
       \/ /\ UNCHANGED reads_left
          /\ \/ \E t \in Writers, v \in Values : WriteCall(t, v)
             \/ \E t \in Writers : WriteStep(t)
             \/ \E t \in Writers : ClearRun(t)
             \/ \E t \in Holders, id \in AllocIds : GuardDrop(t, id)
             \/ \E t \in Holders : DropRun(t)

SpecAnyOrder ==
    InitAnyOrder /\ [][NextAnyOrder]_vars /\ Fairness(Writers \cup Holders)

\* ---------------------------------------------------------- history
Latest == installed[Len(installed)]
IndexOf(id) == CHOOSE k \in 1 .. Len(installed) : installed[k] = id
InClear(t) == pc[t] \in {"c_cas", "c_inner", "c_wait", "c_store", "c_free"}
\* the allocation was displaced and the call that displaced it has returned
Retired(id) ==
    /\ allocs[id].displaced_by # 0
    /\ victim[allocs[id].displaced_by] # id

\* ------------------------------------------------------------ claims

\* C1: no use-after-free. An allocation that some guard captured at read() and
\* has not finished dropping is never freed, by the fast path of clear or by its
\* drain path, and no dereference touches freed memory.
C1_NoUseAfterFree ==
    /\ ub \notin {"use_after_free", "wild_pointer"}
    /\ \A id \in 1 .. NumAllocs : GuardsOn(id) > 0 => IsLive(id)

\* a guard outlives the value it captured: the writer that displaced it drains,
\* and an earlier value has already been freed
C1_Witness ==
    \E t \in Threads, w \in Threads, id \in 1 .. NumAllocs :
        /\ guards[t][id] > 0
        /\ pc[w] = "c_wait"
        /\ victim[w] = id
        /\ \E j \in 1 .. NumAllocs : allocs[j].frees = 1

\* C2: every allocation displaced from latest is freed exactly once, by the
\* writer whose swap displaced it, and is freed by the time that call returns.
C2_DisplacedFreedOnce ==
    /\ ub # "double_free"
    /\ \A id \in 1 .. NumAllocs :
        /\ allocs[id].frees <= 1
        /\ allocs[id].frees = 1 =>
               /\ allocs[id].displaced_by # 0
               /\ allocs[id].freed_by = allocs[id].displaced_by
        /\ Retired(id) => allocs[id].frees = 1

\* two writers have displaced one allocation each, freed it and returned
C2_Witness ==
    \E i \in 1 .. NumAllocs, j \in 1 .. NumAllocs :
        /\ allocs[i].frees = 1
        /\ allocs[j].frees = 1
        /\ allocs[i].freed_by # allocs[j].freed_by
        /\ \A t \in Threads : ~InClear(t)

\* C3: when the cell is dropped, the allocation latest names is freed, so every
\* value ever installed has been freed exactly once.
C3_CellDropFreesAll ==
    ~cell_alive => \A id \in 1 .. NumAllocs : allocs[id].frees = 1

\* C4: a write or update does not return while a guard acquired on the value it
\* displaced is undropped: past the drain no guard on the displaced allocation
\* is left, and none is left once the call has returned.
C4_NoReturnBeforeDrain ==
    /\ \A t \in Threads :
        pc[t] \in {"c_store", "c_free"} => GuardsOn(victim[t]) = 0
    /\ \A id \in 1 .. NumAllocs : Retired(id) => GuardsOn(id) = 0

\* a writer whose swapped-out word counted two guards is past its drain
C4_Witness ==
    \E t \in Threads :
        /\ pc[t] = "c_free"
        /\ Counter(old_ptr_counter[t]) = 2

\* a read has just returned to t a guard on allocation id
Acquired(t, id) == guards'[t][id] > guards[t][id]

\* C5: read-after-write visibility. A read never returns a guard on an
\* allocation that a write or update displaced: the allocation it captures is
\* live and undisplaced, and it was installed after every allocation whose
\* displacing call has returned.
C5_ReadAfterWrite ==
    [][\A t \in Threads, id \in AllocIds :
          Acquired(t, id) =>
              /\ IsLive(id)
              /\ allocs[id].displaced_by = 0
              /\ \A j \in 1 .. NumAllocs :
                     Retired(j) => IndexOf(id) > IndexOf(j)]_vars

\* a thread wrote 1 over the initial 0, returned, and its read sees its own 1
C5_Witness ==
    \E t \in Threads, id \in 2 .. NumAllocs :
        /\ guards[t][id] > 0
        /\ id = Latest
        /\ allocs[id].val = 1
        /\ allocs[installed[IndexOf(id) - 1]].displaced_by = t
        /\ allocs[installed[IndexOf(id) - 1]].frees = 1

\* C6: read never blocks and never fails. Whatever the writers and the other
\* guards are doing, a thread that is in its own code can read, and the read
\* is one fetch-add on latest that leaves the caller with a guard on the
\* pointer latest held at that instant.
C6_ReadNeverBlocks ==
    /\ [](\A t \in Threads :
            (pc[t] = "idle" /\ cell_alive /\ ub = "none" /\ NumGuards < MaxGuards)
                => ENABLED Read(t))
    /\ [][\A t \in Threads, id \in AllocIds :
            Acquired(t, id) =>
                /\ ptr_counter_latest' = FetchAdd1(ptr_counter_latest)
                /\ AddrOf(id) = Ptr(ptr_counter_latest)
                /\ pc' = pc
                /\ ptr_counter_to_clear' = ptr_counter_to_clear
                /\ update_token' = update_token]_vars

\* a guard was taken on the value an update installed while that update still
\* holds the exclusive side of update_token and another writer is retiring
C6_Witness ==
    \E u \in Threads, t \in Threads :
        /\ pc[u] = "u_drop_token"
        /\ update_token.exclusive = u
        /\ guards[t][Latest] > 0
        /\ IndexOf(victim[u]) + 1 = Len(installed)
        /\ ptr_counter_to_clear # 0

\* C7: update composition. Each update applies f to exactly the value its own
\* swap displaces, and no other swap lands between an update's load of latest
\* and that update's swap.
C7_UpdateComposition ==
    [][\A t \in Threads :
          /\ (pc[t] = "u_swap" /\ pc'[t] = "u_drop_token") =>
                /\ Ptr(ptr_counter_latest) = old_value[t]
                /\ allocs[AllocAt(Ptr(new_ptr_counter[t]))].val
                       = Apply(f_arg[t], allocs[AllocAt(Ptr(ptr_counter_latest))].val)
          /\ (pc[t] \in {"u_f", "u_swap"} /\ pc'[t] = pc[t]) =>
                Ptr(ptr_counter_latest') = Ptr(ptr_counter_latest)]_vars

\* update(zero) then update(inc), by two threads that overlap, leave inc(zero(0))
C7_Witness ==
    \E t \in Threads, u \in Threads :
        /\ t # u
        /\ pc[t] = "u_drop_token"
        /\ f_arg[t] = "inc"
        /\ InClear(u)
        /\ f_arg[u] = "zero"
        /\ Len(installed) = 3
        /\ allocs[Latest].val = 1

\* C8: no deadlock under write contention. With writer threads that only write
\* and reader threads that hold one guard at a time, every started write
\* returns and every started guard drop completes.
C8_NoDeadlock ==
    \A t \in Writers \cup Readers : (pc[t] # "idle") ~> (pc[t] = "idle")

\* a writer is parked on the hand-off behind a writer that drains, and a reader
\* is in the second loop of its drop
C8_Witness ==
    \E w \in Writers, x \in Writers, r \in Readers :
        /\ pc[w] = "c_wait"
        /\ pc[x] = "c_inner"
        /\ pc[r] = "d_load_to_clear"

\* C9: every guard drop eventually completes, for any number of writers and of
\* guards held per thread, dropped in any order.
C9_DropCompletes ==
    \A t \in Writers \cup Holders : (self_guard[t] # 0) ~> (self_guard[t] = 0)

\* C10: reads observe a monotonic succession of versions. A read captures the
\* version installed last, which is the initial one or one a swap already
\* installed, no version is installed twice, and no guard taken earlier is on a
\* version installed after the one a later read captures.
C10_MonotonicReads ==
    [][/\ \A t \in Threads, id \in AllocIds :
            Acquired(t, id) =>
                /\ \E k \in 1 .. Len(installed) : installed[k] = id
                /\ IndexOf(id) = Len(installed)
                /\ \A g \in 1 .. NumAllocs :
                       GuardsOn(g) > 0 => IndexOf(g) <= IndexOf(id)
       /\ \/ installed' = installed
          \/ /\ Len(installed') = Len(installed) + 1
             /\ SubSeq(installed', 1, Len(installed)) = installed
             /\ \A k \in 1 .. Len(installed) : installed[k] # installed'[Len(installed')]
      ]_vars

\* one thread holds a guard on the initial version and one on the second
C10_Witness ==
    \E t \in Threads :
        /\ Len(installed) = 2
        /\ guards[t][installed[1]] > 0
        /\ guards[t][installed[2]] > 0

\* -------------------------------------- one writer, a rolling window of guards
\* The example: one thread makes write and update calls, another keeps Window
\* guards alive, takes one more and then drops the oldest one it holds, and
\* drops what it still holds, oldest first, when its reads are done.
Writer == {1}
Reader == {2}
Window == MaxGuards - 1

Held(t) == SumOver(guards[t], AllocIds)
\* the guard of t that was taken first: guards are taken on the latest version
Oldest(t) ==
    CHOOSE id \in AllocIds :
        /\ guards[t][id] > 0
        /\ \A j \in AllocIds : guards[t][j] > 0 => IndexOf(id) <= IndexOf(j)

\* let r = x.read(), while the loop of the reader runs
WindowRead(t) ==
    /\ Held(t) <= Window
    /\ CountedRead(t)

\* guards[idx % 4] = r, and the array going out of scope at the end
DropOldest(t) ==
    /\ Held(t) > 0
    /\ Held(t) > Window \/ reads_left = 0
    /\ GuardDrop(t, Oldest(t))

WindowStep(t) ==
    \/ WindowRead(t)
    \/ /\ UNCHANGED reads_left
       /\ \/ DropOldest(t)
          \/ DropRun(t)

InitWindow == InitFor(Writer \cup Reader)

NextWindow ==
    /\ ub = "none"
    /\ \/ \E t \in Reader : WindowStep(t)
       \/ /\ UNCHANGED reads_left
          /\ \/ \E t \in Reader, id \in AllocIds : Deref(t, id)
             \/ \E t \in Writer, v \in Values : WriteCall(t, v)
             \/ \E t \in Writer, f \in Fns : UpdateCall(t, f)
             \/ \E t \in Writer : WriteStep(t)
             \/ \E t \in Writer : UpdateStep(t)
             \/ \E t \in Writer : ClearRun(t)

SpecWindow ==
    /\ InitWindow
    /\ [][NextWindow]_vars
    /\ Fairness(Writer)
    /\ \A t \in Reader : WF_vars(WindowStep(t))

\* C11: one writer and a reader with a rolling window of guards. Under fair
\* scheduling every write and update the writer starts returns, every guard
\* drop the reader starts completes and the reader ends with no guard, and
\* every guard held is on a live allocation that was installed, so that it
\* dereferences to the initial value or to a value the writer installed.
C11_WindowTerminates ==
    /\ \A t \in Writer \cup Reader : (pc[t] # "idle") ~> (pc[t] = "idle")
    /\ \A t \in Reader : <>[](Held(t) = 0 /\ self_guard[t] = 0)
    /\ [](/\ ub = "none"
          /\ \A t \in Reader, id \in AllocIds :
                (guards[t][id] > 0 \/ self_guard[t] = id) =>
                    /\ id <= NumAllocs
                    /\ IsLive(id)
                    /\ \E k \in 1 .. Len(installed) : installed[k] = id)

\* the reader drops the older of its two guards, which is on a value the
\* writer has displaced and waits for, while its newer guard is on the value
\* an update installed
C11_Witness ==
    \E w \in Writer, r \in Reader :
        /\ pc[w] = "c_wait"
        /\ f_arg[w] # "none"
        /\ self_guard[r] = victim[w]
        /\ pc[r] = "d_cas_to_clear"
        /\ guards[r][Latest] > 0

\* -------------------------------------------------- where the counts are
\* the word names the address of allocation id and counts all its guards
CountsFor(w, id) ==
    /\ Ptr(w) = AddrOf(id)
    /\ Counter(w) = GuardsOn(id)

\* thread w has swapped id out of latest and not yet handed it to to_clear:
\* the count of id is in its local old_ptr_counter
InTransit(w, id) ==
    /\ victim[w] = id
    /\ pc[w] \in {"w_drop_token", "u_drop_token", "c_cas", "c_inner"}

\* thread w has handed id to to_clear and has not yet stored the empty word
Draining(w, id) ==
    /\ victim[w] = id
    /\ pc[w] \in {"c_wait", "c_store"}
    /\ Counter(old_ptr_counter[w]) # 0

\* C12 as stated: for every guard that has not decremented, its unit of reader
\* count is in latest if its pointer is still latest and in to_clear if it has
\* been displaced, also between the swap and the hand-off of the displacing
\* writer.
C12_UnitInAWord ==
    \A id \in 1 .. NumAllocs :
        GuardsOn(id) > 0 =>
            IF allocs[id].displaced_by = 0
            THEN CountsFor(ptr_counter_latest, id)
            ELSE CountsFor(ptr_counter_to_clear, id)

\* C12, amended: for every guard that has not decremented, its unit of reader
\* count is in exactly one place: in latest while its pointer is latest, in the
\* local old_ptr_counter of the displacing writer from that writer's swap
\* until its hand-off compare-exchange succeeds (then neither word names the
\* pointer), and in to_clear from then on.
C12_GuardAccounting ==
    \A id \in 1 .. NumAllocs :
        GuardsOn(id) > 0 =>
            LET w == allocs[id].displaced_by
            IN  IF w = 0
                THEN /\ CountsFor(ptr_counter_latest, id)
                     /\ Ptr(ptr_counter_to_clear) # AddrOf(id)
                ELSE /\ Ptr(ptr_counter_latest) # AddrOf(id)
                     /\ \/ /\ InTransit(w, id)
                           /\ CountsFor(old_ptr_counter[w], id)
                           /\ Ptr(ptr_counter_to_clear) # AddrOf(id)
                        \/ /\ Draining(w, id)
                           /\ CountsFor(ptr_counter_to_clear, id)

\* a guard is held on an allocation whose displacing writer is parked behind
\* the drain of another writer: its unit is in neither word
C12_Witness ==
    \E r \in Threads, w \in Threads, x \in Threads, id \in 1 .. NumAllocs :
        /\ guards[r][id] > 0
        /\ InTransit(w, id)
        /\ pc[w] = "c_inner"
        /\ pc[x] = "c_wait"
        /\ Ptr(ptr_counter_to_clear) # AddrOf(id)

\* the guards that have not decremented on the allocation the word names
GuardsOnWord(w) ==
    IF LiveAt(Ptr(w)) = 0 THEN 0 ELSE GuardsOn(LiveAt(Ptr(w)))

\* thread t takes the step on which its compare_exchange_weak succeeds
DecrementsLatest(t) == pc[t] = "d_cas_latest" /\ pc'[t] = "idle"
DecrementsToClear(t) == pc[t] = "d_cas_to_clear" /\ pc'[t] = "idle"

\* C13: counter bounds. The counter of latest and of to_clear is never more
\* than the number of guards on the word's pointer that have not decremented,
\* and no guard drop subtracts 1 from a word whose counter is 0: a successful
\* compare-exchange of a drop, in the first loop or in the second, finds a
\* counter above 0 and leaves the pointer field as it was.
C13_CounterBounds ==
    /\ [](/\ Counter(ptr_counter_latest) <= GuardsOnWord(ptr_counter_latest)
          /\ Counter(ptr_counter_to_clear) <= GuardsOnWord(ptr_counter_to_clear))
    /\ [][\A t \in Threads :
            /\ DecrementsLatest(t) =>
                  /\ Counter(ptr_counter_latest) > 0
                  /\ Ptr(ptr_counter_latest') = Ptr(ptr_counter_latest)
                  /\ Counter(ptr_counter_latest') = Counter(ptr_counter_latest) - 1
            /\ DecrementsToClear(t) =>
                  /\ Counter(ptr_counter_to_clear) > 0
                  /\ Ptr(ptr_counter_to_clear') = Ptr(ptr_counter_to_clear)
                  /\ Counter(ptr_counter_to_clear') = Counter(ptr_counter_to_clear) - 1
         ]_vars

\* the second loop has taken the counter of to_clear from 2 down to 0 and the
\* pointer is still there
C13_Witness ==
    \E w \in Threads :
        /\ pc[w] = "c_wait"
        /\ Counter(old_ptr_counter[w]) = 2
        /\ ptr_counter_to_clear = NewWord(Ptr(old_ptr_counter[w]))
        /\ \A t \in Threads : self_guard[t] = 0

\* thread t is inside write or update (clear included)
InWrite(t) ==
    \/ pc[t] \in {"w_token", "w_swap", "w_drop_token"}
    \/ pc[t] \in {"u_token", "u_load", "u_f", "u_swap", "u_drop_token"}
    \/ InClear(t)

\* C14: to_clear is empty whenever no write or update is in progress, and so
\* when the cell is dropped: a write or update that handed a word to to_clear
\* has stored the empty word by the time it frees and returns.
C14_ToClearEmptyAtRest ==
    /\ (\A t \in Threads : ~InWrite(t)) => ptr_counter_to_clear = 0
    /\ ~cell_alive => ptr_counter_to_clear = 0
    /\ \A t \in Threads :
          (pc[t] = "c_free" /\ Counter(old_ptr_counter[t]) # 0) =>
              Ptr(ptr_counter_to_clear) # Ptr(old_ptr_counter[t])

\* the only call in progress has drained two guards out of to_clear and has
\* nothing left to do but free and return
C14_Witness ==
    \E t \in Threads :
        /\ pc[t] = "c_free"
        /\ Counter(old_ptr_counter[t]) = 2
        /\ ptr_counter_to_clear = 0
        /\ \A u \in Threads \ {t} : pc[u] = "idle"
        /\ Len(installed) = 3

\* the threads between a successful hand-off and their store of the empty word
Retiring == {t \in Threads : pc[t] \in {"c_wait", "c_store"}}

\* thread t takes the step on which its hand-off compare_exchange_weak succeeds
HandsOff(t) == pc[t] = "c_cas" /\ pc'[t] = "c_wait"

\* C15: retirement is mutually exclusive. At most one thread is between its
\* successful hand-off and its store of the empty word; to_clear is empty when
\* there is none and otherwise holds that thread's pointer with a counter no
\* higher than the one it swapped out; a hand-off succeeds only on the empty
\* word, and a word in to_clear changes only by its counter going down or by
\* the store of the empty word by the thread that put it there.
C15_RetirementExclusive ==
    /\ [](/\ Cardinality(Retiring) <= 1
          /\ (ptr_counter_to_clear # 0) => (Retiring # {})
          /\ \A t \in Retiring :
                /\ Ptr(ptr_counter_to_clear) = Ptr(old_ptr_counter[t])
                /\ Ptr(ptr_counter_to_clear) # 0
                /\ Counter(ptr_counter_to_clear) <= Counter(old_ptr_counter[t]))
    /\ [][/\ \A t \in Threads :
                HandsOff(t) =>
                    /\ ptr_counter_to_clear = 0
                    /\ ptr_counter_to_clear' = old_ptr_counter[t]
          /\ (ptr_counter_to_clear # 0 /\ ptr_counter_to_clear' # ptr_counter_to_clear) =>
                \/ /\ Ptr(ptr_counter_to_clear') = Ptr(ptr_counter_to_clear)
                   /\ Counter(ptr_counter_to_clear') < Counter(ptr_counter_to_clear)
                \/ /\ ptr_counter_to_clear' = 0
                   /\ \E t \in Retiring : pc[t] = "c_store" /\ pc'[t] = "c_free"
         ]_vars

\* a writer has drained and is about to store the empty word while another
\* writer, whose swapped-out word counts a guard, is at its hand-off
C15_Witness ==
    \E w \in Threads, x \in Threads :
        /\ pc[w] = "c_store"
        /\ ptr_counter_to_clear = NewWord(Ptr(old_ptr_counter[w]))
        /\ pc[x] = "c_cas"
        /\ Counter(old_ptr_counter[x]) # 0

\* thread t goes from somewhere else to label
Reaches(t, label) == pc[t] # label /\ pc'[t] = label

\* allocation id is freed on this step
Freed(id) == allocs'[id].frees > allocs[id].frees

\* C16: drain precedes free. An allocation is freed only by the thread that
\* displaced it, at the Box::from_raw of its clear. A thread whose swapped-out
\* counter was not 0 gets there only from its store of the empty word, which
\* it reaches only from a load of to_clear that showed its own pointer with
\* counter 0; only a thread whose swapped-out counter was 0 gets there
\* straight from its swap. When such a thread frees, to_clear no longer names
\* the allocation and no guard on it is left.
C16_DrainPrecedesFree ==
    /\ [][/\ \A id \in 1 .. NumAllocs :
                Freed(id) =>
                    \E t \in Threads :
                        /\ pc[t] = "c_free"
                        /\ pc'[t] = "idle"
                        /\ victim[t] = id
                        /\ Ptr(old_ptr_counter[t]) = AddrOf(id)
          /\ \A t \in Threads :
                /\ Reaches(t, "c_store") =>
                      /\ pc[t] = "c_wait"
                      /\ ptr_counter_to_clear = NewWord(Ptr(old_ptr_counter[t]))
                      /\ Counter(old_ptr_counter[t]) # 0
                /\ Reaches(t, "c_free") =>
                      \/ /\ pc[t] \in {"w_drop_token", "u_drop_token"}
                         /\ Counter(old_ptr_counter[t]) = 0
                      \/ /\ pc[t] = "c_store"
                         /\ Counter(old_ptr_counter[t]) # 0
                         /\ ptr_counter_to_clear' = 0
                /\ Reaches(t, "c_cas") /\ pc[t] \in {"w_drop_token", "u_drop_token"} =>
                      Counter(old_ptr_counter[t]) # 0
         ]_vars
    /\ [](\A t \in Threads :
            (pc[t] = "c_free" /\ Counter(old_ptr_counter[t]) # 0) =>
                /\ IsLive(victim[t])
                /\ GuardsOn(victim[t]) = 0
                /\ ptr_counter_to_clear # NewWord(Ptr(old_ptr_counter[t])))

\* a thread has drained and given the slot back but not freed yet, and the
\* slot is already taken by the next writer
C16_Witness ==
    \E t \in Threads, x \in Threads :
        /\ pc[t] = "c_free"
        /\ Counter(old_ptr_counter[t]) # 0
        /\ IsLive(victim[t])
        /\ pc[x] = "c_wait"
        /\ ptr_counter_to_clear = old_ptr_counter[x]

\* allocation j was made at the address of allocation id after id was
Reuses(j, id) == j > id /\ AddrOf(j) = AddrOf(id)

\* C17: address reuse is harmless. While a guard on an allocation has not
\* decremented, no later allocation has been made at its address, so neither
\* word names that address for another allocation; and the compare-exchange
\* on which a drop succeeds is on the word that names the guard's own
\* allocation, in the first loop and in the second.
C17_ReuseHarmless ==
    /\ [](\A id \in 1 .. NumAllocs :
            GuardsOn(id) > 0 =>
                /\ \A j \in 1 .. NumAllocs : ~Reuses(j, id)
                /\ Ptr(ptr_counter_latest) = AddrOf(id) => LiveAt(AddrOf(id)) = id
                /\ Ptr(ptr_counter_to_clear) = AddrOf(id) => LiveAt(AddrOf(id)) = id)
    /\ [][\A t \in Threads :
            /\ DecrementsLatest(t) =>
                  /\ LiveAt(Ptr(ptr_counter_latest)) = self_guard[t]
                  /\ self_guard[t] = Latest
            /\ DecrementsToClear(t) =>
                  /\ LiveAt(Ptr(ptr_counter_to_clear)) = self_guard[t]
                  /\ \E w \in Retiring : victim[w] = self_guard[t]
         ]_vars

\* a guard on an allocation made at a reused address is in the first loop of
\* its drop while a guard on a displaced allocation is still held
C17_Witness ==
    \E t \in Threads, r \in Threads, id \in 1 .. NumAllocs, j \in 1 .. NumAllocs,
       k \in 1 .. NumAllocs :
        /\ Reuses(id, j)
        /\ self_guard[t] = id
        /\ pc[t] = "d_cas_latest"
        /\ guards[r][k] > 0
        /\ allocs[k].displaced_by # 0

\* thread t is in update between its load of latest and its swap
HoldsOldValue(t) == pc[t] \in {"u_f", "u_swap"}

\* C18: the reference update passes to f stays valid. From the load of latest
\* to the swap the thread holds the exclusive side of update_token, no thread
\* holds the shared side, latest keeps the pointer that was loaded, and the
\* allocation it names is the latest version and is not freed; reads and guard
\* drops change the counter of latest only.
C18_OldValueValid ==
    /\ [](/\ ub # "use_after_free"
          /\ \A t \in Threads :
                HoldsOldValue(t) =>
                    /\ update_token = [shared |-> 0, exclusive |-> t]
                    /\ Ptr(ptr_counter_latest) = old_value[t]
                    /\ LiveAt(old_value[t]) = Latest
                    /\ allocs[Latest].displaced_by = 0
                    /\ \A u \in Threads \ {t} :
                          pc[u] \notin {"w_swap", "w_drop_token", "u_load", "u_f",
                                        "u_swap", "u_drop_token"})
    /\ [][\A t \in Threads :
            (HoldsOldValue(t) /\ pc'[t] = pc[t]) =>
                /\ Ptr(ptr_counter_latest') = Ptr(ptr_counter_latest)
                /\ installed' = installed
                /\ allocs'[Latest].frees = 0
         ]_vars

\* f has run on the value of an update; meanwhile a guard was taken on that
\* value and another is in its drop, and a write waits for update_token
C18_Witness ==
    \E t \in Threads, x \in Threads, r \in Threads :
        /\ pc[t] = "u_swap"
        /\ pc[x] = "w_token"
        /\ pc[r] = "d_cas_latest"
        /\ self_guard[r] = Latest
        /\ guards[r][Latest] > 0

\* thread t is between taking update_token and dropping it
HoldsToken(t) ==
    pc[t] \in {"w_swap", "w_drop_token", "u_load", "u_f", "u_swap", "u_drop_token"}

\* C19: writes linearize by their swap and reclamation does not hold up
\* publication. A thread inside clear, parked on the hand-off or draining,
\* holds no side of update_token, so update_token is free whenever every
\* write or update in flight is inside clear, and then an update waiting for
\* it can take it, and so can a write when no update waits; a thread at its
\* swap can always swap.
\* Every swap puts its new allocation at the end of the versions and displaces
\* the one that was last, and in every state, so also once all writers have
\* returned, latest names the allocation of the last swap, which is not freed.
C19_SwapsLinearize ==
    /\ [](/\ update_token.shared = Cardinality({t \in Threads : pc[t] \in {"w_swap", "w_drop_token"}})
          /\ \A t \in Threads : InClear(t) => update_token.exclusive # t
          /\ (\A t \in Threads : ~HoldsToken(t)) =>
                /\ update_token = [shared |-> 0, exclusive |-> 0]
                /\ \A u \in Threads :
                      /\ pc[u] = "u_token" => ENABLED UpdateToken(u)
                      /\ (pc[u] = "w_token" /\ \A x \in Threads : pc[x] # "u_token")
                            => ENABLED WriteToken(u)
          /\ \A u \in Threads :
                /\ (pc[u] = "w_swap" /\ ub = "none") => ENABLED WriteSwap(u)
                /\ (pc[u] = "u_swap" /\ ub = "none") => ENABLED UpdateSwap(u)
          /\ Ptr(ptr_counter_latest) = AddrOf(Latest)
          /\ IsLive(Latest)
          /\ allocs[Latest].displaced_by = 0
          /\ \A k \in 1 .. (Len(installed) - 1) :
                allocs[installed[k]].displaced_by # 0)
    /\ [][\A t \in Threads :
            (pc[t] \in {"w_swap", "u_swap"} /\ pc'[t] # pc[t]) =>
                /\ Ptr(ptr_counter_latest') = Ptr(new_ptr_counter[t])
                /\ installed' = Append(installed, AllocAt(Ptr(new_ptr_counter[t])))
                /\ victim'[t] = Latest
                /\ old_ptr_counter'[t] = ptr_counter_latest
         ]_vars

\* a writer drains a guard that is still held while an update has swapped in
\* the version after the one that writer installed
C19_Witness ==
    \E w \in Threads, x \in Threads, r \in Threads :
        /\ pc[w] = "c_wait"
        /\ guards[r][victim[w]] > 0
        /\ pc[x] = "u_drop_token"
        /\ Len(installed) = 3
        /\ victim[w] = installed[1]
        /\ victim[x] = installed[2]

\* to_clear names an allocation and counts no reader
AtZero == Ptr(ptr_counter_to_clear) # 0 /\ Counter(ptr_counter_to_clear) = 0

\* C20: stability at zero. Once to_clear holds a pointer with counter 0, the
\* only step that changes it is the store of the empty word by the thread
\* that handed that pointer off: no guard that has not decremented is on the
\* pointer, no compare-exchange of a drop or of a hand-off can succeed, and
\* the thread at its store finds the word it saw in its drain loop.
C20_StableAtZero ==
    /\ [](/\ AtZero =>
                /\ GuardsOnWord(ptr_counter_to_clear) = 0
                /\ \A t \in Threads :
                      /\ ~ENABLED DropCasToClearOk(t)
                      /\ ~ENABLED ClearCasOk(t)
          /\ \A t \in Threads :
                pc[t] = "c_store" =>
                    ptr_counter_to_clear = NewWord(Ptr(old_ptr_counter[t])))
    /\ [][(AtZero /\ ptr_counter_to_clear' # ptr_counter_to_clear) =>
            /\ ptr_counter_to_clear' = 0
            /\ \E t \in Threads :
                  /\ pc[t] = "c_store"
                  /\ pc'[t] = "c_free"
                  /\ Ptr(old_ptr_counter[t]) = Ptr(ptr_counter_to_clear)
         ]_vars

\* to_clear is at zero and its writer has not looked yet; another writer is
\* parked on the hand-off and a guard on what that one displaced is in the
\* second loop of its drop
C20_Witness ==
    \E w \in Threads, x \in Threads, r \in Threads :
        /\ pc[w] = "c_wait"
        /\ AtZero
        /\ pc[x] = "c_inner"
        /\ pc[r] = "d_load_to_clear"
        /\ self_guard[r] = victim[x]

====
